---- MODULE Spec2Model ----
(***************************************************************************)
(* PicoWifiRobotCar: the HTTP command servers (RobotCarWifi.py,            *)
(* WifiProtocolAPI.py, WifiCommandServer.py).                              *)
(*                                                                         *)
(* A text (Python str) is a sequence of Unicode code points, a byte string *)
(* a sequence of numbers 0..255.  Throttles are in thousandths.            *)
(***************************************************************************)
EXTENDS Integers, Sequences, FiniteSets, TLC

\* ------------------------------------------------------------ bounds ----
MaxRoutes == 2      \* routes registered before the server is used
MaxPathLen == 3     \* length of the exhaustively enumerated short paths

\* -------------------------------------------------------- characters ----
SLASH == 47
QMARK == 63
SPACE == 32
CR == 13
LF == 10

\* ------------------------------------------------------ text literals ----
TxtGET == <<71, 69, 84>>
TxtPOST == <<80, 79, 83, 84>>
TxtGetLower == <<103, 101, 116>>
\* " HTTP/1.1\r\n\r\n"
TxtVersionTail == <<32, 72, 84, 84, 80, 47, 49, 46, 49, 13, 10, 13, 10>>
\* "Unknown path: "
TxtUnknownPath == <<85, 110, 107, 110, 111, 119, 110, 32, 112, 97, 116, 104, 58, 32>>
\* "Only GET supported"
TxtOnlyGet == <<79, 110, 108, 121, 32, 71, 69, 84, 32, 115, 117, 112, 112, 111, 114, 116, 101, 100>>
\* "Only GET supported at this time"
TxtOnlyGetAtThisTime == <<79, 110, 108, 121, 32, 71, 69, 84, 32, 115, 117, 112, 112, 111, 114, 116, 101, 100, 32, 97, 116, 32, 116, 104, 105, 115, 32, 116, 105, 109, 101>>
\* "Bad request encoding"
TxtBadEncoding == <<66, 97, 100, 32, 114, 101, 113, 117, 101, 115, 116, 32, 101, 110, 99, 111, 100, 105, 110, 103>>
\* "Malformed request"
TxtMalformed == <<77, 97, 108, 102, 111, 114, 109, 101, 100, 32, 114, 101, 113, 117, 101, 115, 116>>
TxtStop == <<115, 116, 111, 112>>
TxtForward == <<102, 111, 114, 119, 97, 114, 100>>
TxtBack == <<98, 97, 99, 107>>
TxtLeft == <<108, 101, 102, 116>>
TxtRight == <<114, 105, 103, 104, 116>>
\* "sound:"
TxtSoundColon == <<115, 111, 117, 110, 100, 58>>
\* "cmd"
TxtCmd == <<99, 109, 100>>
PathStop == <<47, 115, 116, 111, 112>>
PathForward == <<47, 102, 111, 114, 119, 97, 114, 100>>
PathBack == <<47, 98, 97, 99, 107>>
PathLeft == <<47, 108, 101, 102, 116>>
PathRight == <<47, 114, 105, 103, 104, 116>>
PathSound == <<47, 115, 111, 117, 110, 100, 47>>
\* the help text returned for the root path
TxtHelp == <<82, 111, 98, 111, 116, 32, 67, 97, 114, 32, 72, 84, 84, 80, 32, 67, 111, 110, 116, 114, 111, 108, 32, 40, 65, 80, 32, 109, 111, 100, 101, 41, 10, 67, 111, 109, 109, 97, 110, 100, 115, 58, 10, 32, 32, 47, 102, 111, 114, 119, 97, 114, 100, 10, 32, 32, 47, 98, 97, 99, 107, 10, 32, 32, 47, 108, 101, 102, 116, 10, 32, 32, 47, 114, 105, 103, 104, 116, 10, 32, 32, 47, 115, 116, 111, 112, 10, 32, 32, 47, 115, 111, 117, 110, 100, 47, 60, 110, 97, 109, 101, 62, 10>>

\* ------------------------------------------------------ str operations ----
Range(s) == {s[i] : i \in DOMAIN s}

Min(S) == CHOOSE x \in S : \A y \in S : x <= y

\* s.startswith(p)
StartsWith(s, p) == Len(p) <= Len(s) /\ SubSeq(s, 1, Len(p)) = p

\* s.endswith("/")
EndsWithSlash(s) == Len(s) > 0 /\ s[Len(s)] = SLASH

\* s[n:]
Drop(s, n) == SubSeq(s, n + 1, Len(s))

\* mutant: the path is cut at the last "?" (rsplit)
StripQuery_Last(p) ==
    IF QMARK \in Range(p)
    THEN SubSeq(p, 1, (CHOOSE i \in DOMAIN p : p[i] = QMARK /\ \A j \in DOMAIN p : p[j] = QMARK => j <= i) - 1)
    ELSE p

\* if "?" in path: path, _ = path.split("?", 1)
StripQuery(p) ==
    IF QMARK \in Range(p)
    THEN SubSeq(p, 1, Min({i \in DOMAIN p : p[i] = QMARK}) - 1)
    ELSE p

\* ---------------------------------------------------------- handlers ----
\* The callables a developer registers: "cmd" takes no argument, "sound"
\* takes the remainder of the path.  A call with the wrong number of
\* arguments raises TypeError.
Handlers == {"cmd", "sound"}

Return(text) == [kind |-> "return", exc |-> "", text |-> text]

Raise(e) == [kind |-> "raise", exc |-> e, text |-> <<>>]

CallHandler(h, args) ==
    IF h = "cmd"
    THEN IF Len(args) = 0 THEN Return(TxtCmd) ELSE Raise("TypeError")
    ELSE IF Len(args) = 1 THEN Return(TxtSoundColon \o args[1]) ELSE Raise("TypeError")

\* ---------------------------------------------------------- registry ----
\* The dict route_registry / self.registry, as the sequence of its items in
\* iteration order.
Keys(reg) == {reg[i].pattern : i \in DOMAIN reg}

IndexOf(reg, p) == CHOOSE i \in DOMAIN reg : reg[i].pattern = p

InsertAt(s, i, e) == SubSeq(s, 1, i - 1) \o <<e>> \o SubSeq(s, i, Len(s))

\* registry[path] = func.  An existing key keeps its place; a new key lands
\* at position pos of the iteration order (the last one in CPython, any in
\* CircuitPython, whose dicts do not keep insertion order).
RegisterRoute(reg, p, f, pos) ==
    IF p \in Keys(reg)
    THEN [reg EXCEPT ![IndexOf(reg, p)].func = f]
    ELSE InsertAt(reg, pos, [pattern |-> p, func |-> f])

\* the prefix loop: indexes of the items the loop would accept
PrefixMatches(reg, p) ==
    {i \in DOMAIN reg : EndsWithSlash(reg[i].pattern) /\ StartsWith(p, reg[i].pattern)}

Invoke(h, args) == [invoked |-> <<[func |-> h, args |-> args]>>,
                    moves |-> <<>>,
                    outcome |-> CallHandler(h, args)]

\* mutant: the exact match passes the path to the handler
HandlePath_ExactArg(reg, path0) ==
    LET p == StripQuery(path0) IN
    IF p \in Keys(reg)
    THEN Invoke(reg[IndexOf(reg, p)].func, <<p>>)
    ELSE IF PrefixMatches(reg, p) # {}
         THEN LET i == Min(PrefixMatches(reg, p)) IN
              Invoke(reg[i].func, <<Drop(p, Len(reg[i].pattern))>>)
         ELSE [invoked |-> <<>>, moves |-> <<>>,
               outcome |-> Return(TxtUnknownPath \o p)]

\* mutant: the prefix match passes the whole path, not the remainder
HandlePath_WholePath(reg, path0) ==
    LET p == StripQuery(path0) IN
    IF p \in Keys(reg)
    THEN Invoke(reg[IndexOf(reg, p)].func, <<>>)
    ELSE IF PrefixMatches(reg, p) # {}
         THEN LET i == Min(PrefixMatches(reg, p)) IN
              Invoke(reg[i].func, <<p>>)
         ELSE [invoked |-> <<>>, moves |-> <<>>,
               outcome |-> Return(TxtUnknownPath \o p)]

\* mutant: the prefix loop runs before the exact lookup
HandlePath_PrefixFirst(reg, path0) ==
    LET p == StripQuery(path0) IN
    IF PrefixMatches(reg, p) # {}
    THEN LET i == Min(PrefixMatches(reg, p)) IN
         Invoke(reg[i].func, <<Drop(p, Len(reg[i].pattern))>>)
    ELSE IF p \in Keys(reg)
         THEN Invoke(reg[IndexOf(reg, p)].func, <<>>)
         ELSE [invoked |-> <<>>, moves |-> <<>>,
               outcome |-> Return(TxtUnknownPath \o p)]

\* mutant: no fallback, registry[path] raises KeyError for an unknown path
HandlePath_KeyError(reg, path0) ==
    LET p == StripQuery(path0) IN
    IF p \in Keys(reg)
    THEN Invoke(reg[IndexOf(reg, p)].func, <<>>)
    ELSE IF PrefixMatches(reg, p) # {}
         THEN LET i == Min(PrefixMatches(reg, p)) IN
              Invoke(reg[i].func, <<Drop(p, Len(reg[i].pattern))>>)
         ELSE [invoked |-> <<>>, moves |-> <<>>, outcome |-> Raise("KeyError")]

\* handle_path(path, registry) of WifiProtocolAPI / WifiCommandServer
HandlePath(reg, path0) ==
    LET p == StripQuery(path0) IN
    IF p \in Keys(reg)
    THEN Invoke(reg[IndexOf(reg, p)].func, <<>>)
    ELSE IF PrefixMatches(reg, p) # {}
         THEN LET i == Min(PrefixMatches(reg, p)) IN
              Invoke(reg[i].func, <<Drop(p, Len(reg[i].pattern))>>)
         ELSE [invoked |-> <<>>, moves |-> <<>>,
               outcome |-> Return(TxtUnknownPath \o p)]

\* ------------------------------------------------------------- servos ----
left_adjust == 75
right_adjust == 75
left_reverse == 1
right_reverse == -1

Clamp(t) == IF t > 1000 THEN 1000 ELSE IF t < -1000 THEN -1000 ELSE t

\* mutant: clamp, then trim and flip
MoveServo_ClampFirst(l, r) == [left |-> (Clamp(l) + left_adjust) * left_reverse,
                               right |-> (Clamp(r) + right_adjust) * right_reverse]

\* the pair of throttles move_servo(l, r) writes
MoveServo(l, r) == [left |-> Clamp((l + left_adjust) * left_reverse),
                    right |-> Clamp((r + right_adjust) * right_reverse)]

Move(l, r, text) == [invoked |-> <<>>, moves |-> <<<<l, r>>>>, outcome |-> Return(text)]

NoMove(text) == [invoked |-> <<>>, moves |-> <<>>, outcome |-> Return(text)]

\* mutant: the root path is not special
HandlePathCar_NoRoot(path0) ==
    LET p == StripQuery(path0) IN
    IF p = PathStop THEN Move(0, 0, TxtStop)
    ELSE IF p = PathForward THEN Move(-1000, -1000, TxtForward)
    ELSE IF p = PathBack THEN Move(1000, 1000, TxtBack)
    ELSE IF p = PathLeft THEN Move(-500, 500, TxtLeft)
    ELSE IF p = PathRight THEN Move(500, -500, TxtRight)
    ELSE IF StartsWith(p, PathSound) THEN NoMove(TxtSoundColon \o Drop(p, Len(PathSound)))
    ELSE NoMove(TxtUnknownPath \o p)

\* mutant: /left drives like /right
HandlePathCar_LeftIsRight(path0) ==
    LET p == StripQuery(path0) IN
    IF p = <<SLASH>> \/ p = <<>> THEN NoMove(TxtHelp)
    ELSE IF p = PathStop THEN Move(0, 0, TxtStop)
    ELSE IF p = PathForward THEN Move(-1000, -1000, TxtForward)
    ELSE IF p = PathBack THEN Move(1000, 1000, TxtBack)
    ELSE IF p = PathLeft THEN Move(500, -500, TxtLeft)
    ELSE IF p = PathRight THEN Move(500, -500, TxtRight)
    ELSE IF StartsWith(p, PathSound) THEN NoMove(TxtSoundColon \o Drop(p, Len(PathSound)))
    ELSE NoMove(TxtUnknownPath \o p)

\* handle_path(path) of RobotCarWifi: the hardcoded routes
HandlePathCar(path0) ==
    LET p == StripQuery(path0) IN
    IF p = <<SLASH>> \/ p = <<>> THEN NoMove(TxtHelp)
    ELSE IF p = PathStop THEN Move(0, 0, TxtStop)
    ELSE IF p = PathForward THEN Move(-1000, -1000, TxtForward)
    ELSE IF p = PathBack THEN Move(1000, 1000, TxtBack)
    ELSE IF p = PathLeft THEN Move(-500, 500, TxtLeft)
    ELSE IF p = PathRight THEN Move(500, -500, TxtRight)
    ELSE IF StartsWith(p, PathSound) THEN NoMove(TxtSoundColon \o Drop(p, Len(PathSound)))
    ELSE NoMove(TxtUnknownPath \o p)

\* -------------------------------------------------------------- UTF-8 ----
IsCont(x) == x >= 128 /\ x <= 191

\* str.encode("utf-8") of one code point
EncodeChar(c) ==
    IF c < 128 THEN <<c>>
    ELSE IF c < 2048 THEN <<192 + (c \div 64), 128 + (c % 64)>>
    ELSE IF c < 65536 THEN <<224 + (c \div 4096), 128 + ((c \div 64) % 64), 128 + (c % 64)>>
    ELSE <<240 + (c \div 262144), 128 + ((c \div 4096) % 64),
           128 + ((c \div 64) % 64), 128 + (c % 64)>>

RECURSIVE Utf8Encode(_)
\* text.encode("utf-8")
Utf8Encode(t) == IF t = <<>> THEN <<>> ELSE EncodeChar(Head(t)) \o Utf8Encode(Tail(t))

\* the first character of a byte string: n bytes long (0: invalid), code point cp
DecodeHead(b) ==
    LET b1 == b[1] IN
    IF b1 < 128 THEN [n |-> 1, cp |-> b1]
    ELSE IF /\ b1 >= 194 /\ b1 <= 223 /\ Len(b) >= 2 /\ IsCont(b[2])
         THEN [n |-> 2, cp |-> (b1 - 192) * 64 + (b[2] - 128)]
    ELSE IF /\ b1 >= 224 /\ b1 <= 239 /\ Len(b) >= 3 /\ IsCont(b[2]) /\ IsCont(b[3])
            /\ (b1 = 224 => b[2] >= 160) /\ (b1 = 237 => b[2] <= 159)
         THEN [n |-> 3, cp |-> (b1 - 224) * 4096 + (b[2] - 128) * 64 + (b[3] - 128)]
    ELSE IF /\ b1 >= 240 /\ b1 <= 244 /\ Len(b) >= 4
            /\ IsCont(b[2]) /\ IsCont(b[3]) /\ IsCont(b[4])
            /\ (b1 = 240 => b[2] >= 144) /\ (b1 = 244 => b[2] <= 143)
         THEN [n |-> 4, cp |-> (b1 - 240) * 262144 + (b[2] - 128) * 4096
                               + (b[3] - 128) * 64 + (b[4] - 128)]
    ELSE [n |-> 0, cp |-> 0]

RECURSIVE Utf8Decode_Lenient(_)
\* mutant: decode(errors="ignore"), undecodable bytes are dropped
Utf8Decode_Lenient(b) ==
    IF b = <<>> THEN [ok |-> TRUE, text |-> <<>>]
    ELSE LET h == DecodeHead(b) IN
         IF h.n = 0 THEN Utf8Decode_Lenient(Tail(b))
         ELSE LET r == Utf8Decode_Lenient(Drop(b, h.n)) IN
              [ok |-> TRUE, text |-> <<h.cp>> \o r.text]

RECURSIVE Utf8Decode(_)
\* request.decode("utf-8"): ok = FALSE stands for UnicodeError
Utf8Decode(b) ==
    IF b = <<>> THEN [ok |-> TRUE, text |-> <<>>]
    ELSE LET h == DecodeHead(b) IN
         IF h.n = 0 THEN [ok |-> FALSE, text |-> <<>>]
         ELSE LET r == Utf8Decode(Drop(b, h.n)) IN
              [ok |-> r.ok, text |-> IF r.ok THEN <<h.cp>> \o r.text ELSE <<>>]

\* ------------------------------------------------------ request line ----
\* request_str.split("\r\n")[0]
FirstLine(s) ==
    LET at == {i \in 1..(Len(s) - 1) : s[i] = CR /\ s[i + 1] = LF} IN
    IF at = {} THEN s ELSE SubSeq(s, 1, Min(at) - 1)

RECURSIVE SplitSpaces(_)
\* request_line.split(" ")
SplitSpaces(s) ==
    IF SPACE \notin Range(s) THEN <<s>>
    ELSE LET i == Min({j \in DOMAIN s : s[j] = SPACE}) IN
         <<SubSeq(s, 1, i - 1)>> \o SplitSpaces(Drop(s, i))

\* ---------------------------------------------------------- response ----
\* send_http_response(conn, status_code, body): what conn.send is given
SendHttpResponse(status_code, body) ==
    [status |-> status_code,
     reason |-> IF status_code = 200 THEN "OK" ELSE "ERROR",
     content_length |-> Len(body),
     payload |-> Utf8Encode(body)]

\* the body of the 405 answer of each connection loop
OnlyGetBody(i) == IF i = "class" THEN TxtOnlyGetAtThisTime ELSE TxtOnlyGet

\* ------------------------------------------------------------ inputs ----
Impls == {"script", "func", "class"}

PathChars == {SLASH, QMARK, 97}

ShortPaths == UNION {[1..n -> PathChars] : n \in 0..MaxPathLen}

\* "", "/", "/a", "/a/", "/a/a", "/a?a", "//a", "/e'", "/?a", the robot car's
\* vocabulary, "/sound/a", "/sound/a?a", "/sound/e'", "/stop?a"  (e' is U+00E9)
ReqPaths ==
    {<<>>, <<47>>, <<47, 97>>, <<47, 97, 47>>, <<47, 97, 47, 97>>, <<47, 97, 63, 97>>,
     <<47, 47, 97>>, <<47, 233>>, <<47, 63, 97>>,
     PathStop, PathForward, PathBack, PathLeft, PathRight, PathSound,
     PathSound \o <<97>>, PathSound \o <<97, 63, 97>>, PathSound \o <<233>>,
     PathStop \o <<63, 97>>}

Paths == ShortPaths \cup ReqPaths

\* "/a", "/", "/a/", "/a?", "/?/", "//"
Patterns == {<<47, 97>>, <<47>>, <<47, 97, 47>>, <<47, 97, 63>>, <<47, 63, 47>>, <<47, 47>>}

RequestLine(m, p) == Utf8Encode(m \o <<SPACE>> \o p \o TxtVersionTail)

\* b"\xff", b"GET /a\xff", b"GET /\xc3", b"GET /a HTTP/1.1\r\n\xff", b"\xff\r\n"
UndecodableRequests ==
    {<<255>>, TxtGET \o <<32, 47, 97, 255>>, TxtGET \o <<32, 47, 195>>,
     Utf8Encode(TxtGET \o <<32, 47, 97>> \o TxtVersionTail) \o <<255>>, <<255, 13, 10>>}

\* "ONLYONEWORD\r\n\r\n", "GET", "\r\nGET /a", "GET\r\n /a"
OneTokenRequests ==
    {<<79, 78, 76, 89, 79, 78, 69, 87, 79, 82, 68, 13, 10, 13, 10>>,
     TxtGET, <<13, 10>> \o TxtGET \o <<32, 47, 97>>, TxtGET \o <<13, 10, 32, 47, 97>>}

\* what recv(1024) may return: GET requests, other methods, requests that
\* do not parse, and b"" (the peer closed)
Requests ==
    {RequestLine(TxtGET, p) : p \in ReqPaths}
    \cup {RequestLine(TxtPOST, PathStop), RequestLine(TxtPOST, <<47, 97>>),
          RequestLine(TxtPOST, PathSound \o <<97>>), RequestLine(TxtGetLower, PathStop)}
    \cup UndecodableRequests
    \cup OneTokenRequests
    \cup {<<>>}

\* -------------------------------------------------------------- state ----
VARIABLES
    impl,         \* which server runs: RobotCarWifi / WifiProtocolAPI / WifiCommandServer
    registry,     \* route_registry, self.registry
    keepAlive,    \* the loop flag
    pc,           \* position of the server
    conn,         \* the connection conn is bound to: "none", "open", "closed"
    request,      \* bytes returned by recv
    request_str,  \* decoded request
    method,       \* parts[0]
    path,         \* parts[1]
    resp,         \* arguments of the pending send_http_response call
    sent,         \* responses sent on the current connection
    invoked,      \* handler calls made for the current connection
    moves,        \* move_servo calls made for the current connection
    servo,        \* <<left throttle, right throttle>>, <<>> before the first move
    hp_path,      \* argument of the latest direct handle_path call
    hp_result,    \* its calls and outcome
    err,          \* the exception raised in the current loop iteration, "none" if none
    active_keys,  \* the keyboard client's set of keys recorded as held
    current_cmd,  \* the client's last command, "None" before the first
    http_log,     \* the requests the client has made: command and success
    listener,     \* "boot", "running" or "stopped"
    event         \* the client code that ran last: handler and its key argument

vars == <<impl, registry, keepAlive, pc, conn, request, request_str, method, path,
          resp, sent, invoked, moves, servo, hp_path, hp_result, err,
          active_keys, current_cmd, http_log, listener, event>>

clientVars == <<active_keys, current_cmd, http_log, listener, event>>

serverVars == <<impl, registry, keepAlive, pc, conn, request, request_str, method, path,
                resp, sent, invoked, moves, servo, hp_path, hp_result, err>>

connVars == <<request, request_str, method, path, resp, sent, invoked, moves>>

NoResp == [status |-> 0, body |-> <<>>]

NoCall == [invoked |-> <<>>, moves |-> <<>>, outcome |-> Raise("")]

\* a text or byte string variable that is not bound
None == <<-1>>

NoPath == None

\* no client code has run yet
NoEvent == [handler |-> "none", key |-> "none"]

Init ==
    /\ impl \in Impls
    /\ registry = <<>>
    /\ keepAlive = TRUE
    /\ pc = "init"
    /\ conn = "none"
    /\ request = None
    /\ request_str = None
    /\ method = None
    /\ path = None
    /\ resp = NoResp
    /\ sent = <<>>
    /\ invoked = <<>>
    /\ moves = <<>>
    /\ servo = <<>>
    /\ hp_path = NoPath
    /\ hp_result = NoCall
    /\ err = "none"
    /\ active_keys = {}
    /\ current_cmd = "None"
    /\ http_log = <<>>
    /\ listener = "boot"
    /\ event = NoEvent

\* the throttles after a handle_path call that made the moves mv
ServoAfter(sv, mv) ==
    IF mv = <<>> THEN sv
    ELSE LET m == mv[Len(mv)] IN
         LET t == MoveServo(m[1], m[2]) IN <<t.left, t.right>>

\* ----------------------------------------------------------- actions ----
\* register_route(path, func), before the server is started
register_route ==
    /\ pc = "init"
    /\ impl \in {"func", "class"}
    /\ hp_path = NoPath
    /\ \E p \in Patterns, f \in Handlers, pos \in 1..(Len(registry) + 1) :
          /\ p \in Keys(registry) \/ Len(registry) < MaxRoutes
          /\ registry' = RegisterRoute(registry, p, f, pos)
    /\ UNCHANGED <<impl, keepAlive, pc, conn, connVars, servo, hp_path, hp_result, err>>
    /\ UNCHANGED clientVars

\* the dispatcher of each implementation
Dispatcher(i, reg, p) == IF i = "script" THEN HandlePathCar(p) ELSE HandlePath(reg, p)

\* a direct call handle_path(p), up to its return or raise
call_handle_path ==
    /\ pc = "init"
    /\ hp_path = NoPath
    /\ \E p \in Paths :
          /\ hp_path' = p
          /\ hp_result' = Dispatcher(impl, registry, p)
    /\ servo' = ServoAfter(servo, hp_result'.moves)
    /\ UNCHANGED <<impl, registry, keepAlive, pc, conn, connVars, err>>
    /\ UNCHANGED clientVars

\* the caller takes the result; the next call can be made
handle_path_done ==
    /\ pc = "init"
    /\ hp_path # NoPath
    /\ hp_path' = NoPath
    /\ hp_result' = NoCall
    /\ UNCHANGED <<impl, registry, keepAlive, pc, conn, connVars, servo, err>>
    /\ UNCHANGED clientVars

NextRoute == register_route \/ call_handle_path \/ handle_path_done

SpecRoute == Init /\ [][NextRoute]_vars

\* ------------------------------------------------- the connection loop ----
\* WifiCommandServer.start(): calls listen_http_wireless with an argument it
\* does not take
start ==
    /\ pc = "init"
    /\ impl = "class"
    /\ pc' = "raised"
    /\ UNCHANGED <<impl, registry, keepAlive, conn, connVars, servo, hp_path, hp_result, err>>
    /\ UNCHANGED clientVars

\* listen_http_wireless() up to the loop; the top level of RobotCarWifi.py
listen_http_wireless ==
    /\ pc = "init"
    /\ hp_path = NoPath
    /\ pc' = "loop"
    /\ UNCHANGED <<impl, registry, keepAlive, conn, connVars, servo, hp_path, hp_result, err>>
    /\ UNCHANGED clientVars

\* WifiCommandServer.stop_http_server()
stop_http_server ==
    /\ impl = "class"
    /\ pc \notin {"raised", "done"}
    /\ keepAlive = TRUE
    /\ keepAlive' = FALSE
    /\ UNCHANGED <<impl, registry, pc, conn, connVars, servo, hp_path, hp_result, err>>
    /\ UNCHANGED clientVars

\* while keepAlive: / while True: ... try:
LoopTest ==
    /\ pc = "loop"
    /\ pc' = IF keepAlive THEN "accept" ELSE "done"
    /\ err' = "none"
    /\ UNCHANGED <<impl, registry, keepAlive, conn, connVars, servo, hp_path, hp_result>>
    /\ UNCHANGED clientVars

\* mutant: no try/except around the loop body, the OSError propagates
IOFails_Fatal ==
    /\ pc' = "raised"
    /\ err' = "OSError"
    /\ UNCHANGED <<impl, registry, keepAlive, connVars, servo, hp_path, hp_result>>
    /\ UNCHANGED clientVars

\* an I/O call raises OSError
IOFails ==
    /\ pc' = "except"
    /\ err' = "OSError"
    /\ UNCHANGED <<impl, registry, keepAlive, connVars, servo, hp_path, hp_result>>
    /\ UNCHANGED clientVars

\* conn, addr = server.accept().  The locals of the previous iteration are
\* dead from here on (each is assigned before it is read) and are unbound.
Accept ==
    /\ pc = "accept"
    /\ \/ /\ conn' = "open"
          /\ pc' = "recv"
          /\ err' = err
          /\ request' = None
          /\ request_str' = None
          /\ method' = None
          /\ path' = None
          /\ resp' = NoResp
          /\ sent' = <<>>
          /\ invoked' = <<>>
          /\ moves' = <<>>
          /\ UNCHANGED <<impl, registry, keepAlive, servo, hp_path, hp_result>>
       \/ (IOFails /\ conn' = conn)
    /\ UNCHANGED clientVars

\* mutant: the empty request is decoded and parsed like any other
Recv_NoEmptyCheck ==
    /\ pc = "recv"
    /\ \/ /\ \E r \in Requests :
                /\ request' = r
                /\ pc' = "decode"
          /\ UNCHANGED <<impl, registry, keepAlive, conn, request_str, method, path,
                         resp, sent, invoked, moves, servo, hp_path, hp_result, err>>
       \/ (IOFails /\ conn' = conn)
    /\ UNCHANGED clientVars

\* request = conn.recv(1024); if not request: ...
Recv ==
    /\ pc = "recv"
    /\ \/ /\ \E r \in Requests :
                /\ request' = r
                /\ pc' = IF r = <<>> THEN "close" ELSE "decode"
          /\ UNCHANGED <<impl, registry, keepAlive, conn, request_str, method, path,
                         resp, sent, invoked, moves, servo, hp_path, hp_result, err>>
       \/ (IOFails /\ conn' = conn)
    /\ UNCHANGED clientVars

\* request_str = request.decode("utf-8"), except UnicodeError
Decode ==
    /\ pc = "decode"
    /\ LET d == Utf8Decode(request) IN
       IF d.ok
       THEN /\ request_str' = d.text
            /\ pc' = "parse"
            /\ resp' = resp
       ELSE /\ request_str' = request_str
            /\ resp' = [status |-> 400, body |-> TxtBadEncoding]
            /\ pc' = "send"
    /\ UNCHANGED <<impl, registry, keepAlive, conn, request, method, path,
                   sent, invoked, moves, servo, hp_path, hp_result, err>>
    /\ UNCHANGED clientVars

\* request_line, parts, len(parts) < 2, method, path
Parse ==
    /\ pc = "parse"
    /\ LET parts == SplitSpaces(FirstLine(request_str)) IN
       IF Len(parts) < 2
       THEN /\ resp' = [status |-> 400, body |-> TxtMalformed]
            /\ pc' = "send"
            /\ UNCHANGED <<method, path>>
       ELSE /\ method' = parts[1]
            /\ path' = parts[2]
            /\ pc' = "method"
            /\ resp' = resp
    /\ UNCHANGED <<impl, registry, keepAlive, conn, request, request_str,
                   sent, invoked, moves, servo, hp_path, hp_result, err>>
    /\ UNCHANGED clientVars

\* if method != "GET"
CheckMethod ==
    /\ pc = "method"
    /\ IF method # TxtGET
       THEN /\ resp' = [status |-> 405, body |-> OnlyGetBody(impl)]
            /\ pc' = "send"
       ELSE /\ resp' = resp
            /\ pc' = "dispatch"
    /\ UNCHANGED <<impl, registry, keepAlive, conn, request, request_str, method, path,
                   sent, invoked, moves, servo, hp_path, hp_result, err>>
    /\ UNCHANGED clientVars

\* what the loop's call of its dispatcher does: WifiCommandServer calls
\* self.handle_path(path, self.registry), one argument too many
LoopDispatch(i, reg, p) ==
    IF i = "class"
    THEN [invoked |-> <<>>, moves |-> <<>>, outcome |-> Raise("TypeError")]
    ELSE Dispatcher(i, reg, p)

\* mutant: an exception of the dispatcher is answered with status 500
Dispatch_Answers500 ==
    /\ pc = "dispatch"
    /\ LET r == LoopDispatch(impl, registry, path) IN
       /\ invoked' = r.invoked
       /\ moves' = r.moves
       /\ servo' = ServoAfter(servo, r.moves)
       /\ IF r.outcome.kind = "return"
          THEN /\ resp' = [status |-> 200, body |-> r.outcome.text]
               /\ pc' = "send"
               /\ err' = err
          ELSE /\ resp' = [status |-> 500, body |-> <<>>]
               /\ pc' = "send"
               /\ err' = err
    /\ UNCHANGED <<impl, registry, keepAlive, conn, request, request_str, method, path,
                   sent, hp_path, hp_result>>
    /\ UNCHANGED clientVars

\* result_text = handle_path(path)
Dispatch ==
    /\ pc = "dispatch"
    /\ LET r == LoopDispatch(impl, registry, path) IN
       /\ invoked' = r.invoked
       /\ moves' = r.moves
       /\ servo' = ServoAfter(servo, r.moves)
       /\ IF r.outcome.kind = "return"
          THEN /\ resp' = [status |-> 200, body |-> r.outcome.text]
               /\ pc' = "send"
               /\ err' = err
          ELSE /\ resp' = resp
               /\ pc' = "except"
               /\ err' = r.outcome.exc
    /\ UNCHANGED <<impl, registry, keepAlive, conn, request, request_str, method, path,
                   sent, hp_path, hp_result>>
    /\ UNCHANGED clientVars

\* send_http_response(conn, status, body)
Send ==
    /\ pc = "send"
    /\ \/ /\ sent' = Append(sent, SendHttpResponse(resp.status, resp.body))
          /\ pc' = "close"
          /\ UNCHANGED <<impl, registry, keepAlive, conn, request, request_str, method,
                         path, resp, invoked, moves, servo, hp_path, hp_result, err>>
       \/ (IOFails /\ conn' = conn)
    /\ UNCHANGED clientVars

\* what conn.close() leaves of the connection conn is bound to, whether it
\* returns or raises: the socket is released before an error of the
\* underlying close is reported; an unbound conn (NameError) stays unbound
Closed(c) == IF c = "open" THEN "closed" ELSE c

\* conn.close(); continue
Close ==
    /\ pc = "close"
    /\ conn' = Closed(conn)
    /\ \/ /\ pc' = "loop"
          /\ UNCHANGED <<impl, registry, keepAlive, connVars, servo, hp_path, hp_result, err>>
       \/ IOFails
    /\ UNCHANGED clientVars

\* mutant: the handlers only log and sleep
Except_NoClose ==
    /\ pc = "except"
    /\ pc' = "loop"
    /\ UNCHANGED <<impl, registry, keepAlive, conn, connVars, servo, hp_path, hp_result, err>>
    /\ UNCHANGED clientVars

\* except OSError / except Exception: try conn.close() except pass, sleep
Except ==
    /\ pc = "except"
    /\ conn' = Closed(conn)
    /\ pc' = "loop"
    /\ UNCHANGED <<impl, registry, keepAlive, connVars, servo, hp_path, hp_result, err>>
    /\ UNCHANGED clientVars

Next ==
    \/ register_route
    \/ start
    \/ listen_http_wireless
    \/ stop_http_server
    \/ LoopTest
    \/ Accept
    \/ Recv
    \/ Decode
    \/ Parse
    \/ CheckMethod
    \/ Dispatch
    \/ Send
    \/ Close
    \/ Except

Spec == Init /\ [][Next]_vars

\* The interpreter runs the one thread of the server: the exception handlers
\* (print, close, sleep(0.1)) and the loop test do not wait for a peer and
\* are eventually executed.  accept, recv and send wait for the peer and
\* carry no such guarantee.
Fairness == WF_vars(LoopTest) /\ WF_vars(Except)

\* the registry at the time the server is started: nothing registered, or
\* the routes "/a" and "/a/" registered (in either iteration order)
StartRegistries ==
    {<<>>} \cup
    {RegisterRoute(RegisterRoute(<<>>, <<47, 97>>, "cmd", 1), <<47, 97, 47>>, "sound", pos) :
        pos \in 1..2}

\* the program when the registrations are done and the server is started
InitStarted ==
    /\ impl \in Impls
    /\ registry \in (IF impl = "script" THEN {<<>>} ELSE StartRegistries)
    /\ keepAlive = TRUE
    /\ pc = "init"
    /\ conn = "none"
    /\ request = None
    /\ request_str = None
    /\ method = None
    /\ path = None
    /\ resp = NoResp
    /\ sent = <<>>
    /\ invoked = <<>>
    /\ moves = <<>>
    /\ servo = <<>>
    /\ hp_path = NoPath
    /\ hp_result = NoCall
    /\ err = "none"
    /\ active_keys = {}
    /\ current_cmd = "None"
    /\ http_log = <<>>
    /\ listener = "boot"
    /\ event = NoEvent

NextStarted ==
    \/ start
    \/ listen_http_wireless
    \/ stop_http_server
    \/ LoopTest
    \/ Accept
    \/ Recv
    \/ Decode
    \/ Parse
    \/ CheckMethod
    \/ Dispatch
    \/ Send
    \/ Close
    \/ Except

SpecFair == InitStarted /\ [][NextStarted]_vars /\ Fairness

\* --------------------------------------------------- move_servo alone ----
\* the largest throttle argument tried, in thousandths
MaxThrottle == 2000

\* throttle arguments in thousandths: the literals of the routes, the values
\* around which trim and clamp change behaviour, and values out of range
Throttles ==
    {-MaxThrottle, -1076, -1075, -1074, -1000, -926, -925, -924, -500, -76, -75, -74,
     0, 500, 924, 925, 926, 1000, 1074, 1075, 1076, MaxThrottle}

\* a call move_servo(l, r) of RobotCarWifi with arbitrary arguments
move_servo ==
    /\ pc = "init"
    /\ impl = "script"
    /\ \E l \in Throttles, r \in Throttles :
          /\ moves' = <<<<l, r>>>>
          /\ servo' = ServoAfter(servo, <<<<l, r>>>>)
    /\ UNCHANGED <<impl, registry, keepAlive, pc, conn, request, request_str, method, path,
                   resp, sent, invoked, hp_path, hp_result, err>>
    /\ UNCHANGED clientVars

SpecServo == Init /\ [][move_servo]_vars

\* ------------------------------------------------- the keyboard client ----
\* the requests the client makes in one run of the model
MaxRequests == 4

\* the keys that drive the car
MoveKeys == {"w", "a", "s", "d"}

\* the keys of the events: characters (one upper case, one that is no
\* movement key) and special keys, which have no char attribute
KeyEvents == MoveKeys \cup {"W", "x", "space", "esc", "shift"}

HasChar(key) == key \in MoveKeys \cup {"W", "x"}

\* key.char.lower()
Lower(c) == IF c = "W" THEN "w" ELSE c

\* mutant: only the opposite key cancels a direction
compute_command_Opposite(keys) ==
    LET w == "w" \in keys
        a == "a" \in keys
        s == "s" \in keys
        d == "d" \in keys
    IN IF w /\ ~s THEN "forward"
       ELSE IF s /\ ~w THEN "back"
       ELSE IF a /\ ~d THEN "left"
       ELSE IF d /\ ~a THEN "right"
       ELSE "stop"

\* compute_command() on the set keys of held keys
compute_command(keys) ==
    LET w == "w" \in keys
        a == "a" \in keys
        s == "s" \in keys
        d == "d" \in keys
    IN IF w /\ ~s /\ ~a /\ ~d THEN "forward"
       ELSE IF s /\ ~w /\ ~a /\ ~d THEN "back"
       ELSE IF a /\ ~d /\ ~w /\ ~s THEN "left"
       ELSE IF d /\ ~a /\ ~w /\ ~s THEN "right"
       ELSE "stop"

\* mutant: every command is sent, changed or not
send_command_Always(cmd) ==
    /\ current_cmd' = cmd
    /\ \E ok \in BOOLEAN : http_log' = Append(http_log, [cmd |-> cmd, ok |-> ok])

\* mutant: a failed request restores the previous command
send_command_Rollback(cmd) ==
    IF cmd = current_cmd
    THEN UNCHANGED <<current_cmd, http_log>>
    ELSE \E ok \in BOOLEAN :
            /\ http_log' = Append(http_log, [cmd |-> cmd, ok |-> ok])
            /\ current_cmd' = IF ok THEN cmd ELSE current_cmd

\* send_command(cmd): the request succeeds (ok) or fails with an exception
\* that is caught and printed
send_command(cmd) ==
    IF cmd = current_cmd
    THEN UNCHANGED <<current_cmd, http_log>>
    ELSE /\ current_cmd' = cmd
         /\ \E ok \in BOOLEAN : http_log' = Append(http_log, [cmd |-> cmd, ok |-> ok])

\* __main__: the initial stop, then the listener is started
main ==
    /\ listener = "boot"
    /\ send_command("stop")
    /\ listener' = "running"
    /\ event' = [handler |-> "main", key |-> "none"]
    /\ UNCHANGED <<active_keys, serverVars>>

\* mutant: space sends stop and leaves the recorded keys alone
on_press_SpaceKeepsKeys ==
    /\ listener = "running"
    /\ Len(http_log) < MaxRequests
    /\ \E key \in KeyEvents :
          /\ event' = [handler |-> "on_press", key |-> key]
          /\ IF key = "space"
             THEN /\ active_keys' = active_keys
                  /\ send_command("stop")
             ELSE IF ~HasChar(key)
             THEN UNCHANGED <<active_keys, current_cmd, http_log>>
             ELSE LET k == Lower(key) IN
                  IF k \in MoveKeys /\ k \notin active_keys
                  THEN /\ active_keys' = active_keys \cup {k}
                       /\ send_command(compute_command(active_keys \cup {k}))
                  ELSE UNCHANGED <<active_keys, current_cmd, http_log>>
    /\ UNCHANGED <<listener, serverVars>>

\* mutant: space clears the recorded keys and sends nothing
on_press_SpaceSilent ==
    /\ listener = "running"
    /\ Len(http_log) < MaxRequests
    /\ \E key \in KeyEvents :
          /\ event' = [handler |-> "on_press", key |-> key]
          /\ IF key = "space"
             THEN /\ active_keys' = {}
                  /\ UNCHANGED <<current_cmd, http_log>>
             ELSE IF ~HasChar(key)
             THEN UNCHANGED <<active_keys, current_cmd, http_log>>
             ELSE LET k == Lower(key) IN
                  IF k \in MoveKeys /\ k \notin active_keys
                  THEN /\ active_keys' = active_keys \cup {k}
                       /\ send_command(compute_command(active_keys \cup {k}))
                  ELSE UNCHANGED <<active_keys, current_cmd, http_log>>
    /\ UNCHANGED <<listener, serverVars>>

\* on_press(key), called by the listener thread, one event at a time
on_press ==
    /\ listener = "running"
    /\ Len(http_log) < MaxRequests
    /\ \E key \in KeyEvents :
          /\ event' = [handler |-> "on_press", key |-> key]
          /\ IF key = "space"
             THEN /\ active_keys' = {}
                  /\ send_command("stop")
             ELSE IF ~HasChar(key)
             THEN UNCHANGED <<active_keys, current_cmd, http_log>>
             ELSE LET k == Lower(key) IN
                  IF k \in MoveKeys /\ k \notin active_keys
                  THEN /\ active_keys' = active_keys \cup {k}
                       /\ send_command(compute_command(active_keys \cup {k}))
                  ELSE UNCHANGED <<active_keys, current_cmd, http_log>>
    /\ UNCHANGED <<listener, serverVars>>

\* on_release(key); returning False on ESC stops the listener
on_release ==
    /\ listener = "running"
    /\ Len(http_log) < MaxRequests
    /\ \E key \in KeyEvents :
          /\ event' = [handler |-> "on_release", key |-> key]
          /\ IF key = "esc"
             THEN /\ send_command("stop")
                  /\ listener' = "stopped"
                  /\ UNCHANGED active_keys
             ELSE IF ~HasChar(key)
             THEN UNCHANGED <<active_keys, current_cmd, http_log, listener>>
             ELSE LET k == Lower(key) IN
                  IF k \in MoveKeys
                  THEN /\ active_keys' = active_keys \ {k}
                       /\ send_command(compute_command(active_keys \ {k}))
                       /\ UNCHANGED listener
                  ELSE UNCHANGED <<active_keys, current_cmd, http_log, listener>>
    /\ UNCHANGED serverVars

NextClient == main \/ on_press \/ on_release

SpecClient == Init /\ [][NextClient]_vars

\* ============================================================ claims ====
\* the text of a path before its first "?"
BeforeQuery(p) ==
    IF \E k \in DOMAIN p : p[k] = QMARK
    THEN LET k == CHOOSE k \in DOMAIN p :
                     p[k] = QMARK /\ \A j \in 1..(k - 1) : p[j] # QMARK
         IN SubSeq(p, 1, k - 1)
    ELSE p

HasQuery(p) == \E k \in DOMAIN p : p[k] = QMARK

\* a direct call of the registry version of handle_path has been made
RegistryCall == impl \in {"func", "class"} /\ hp_path # NoPath

\* the call handle_path made is exactly h(args) and its outcome is h's
CalledOnly(h, args) ==
    /\ hp_result.invoked = <<[func |-> h, args |-> args]>>
    /\ hp_result.outcome = CallHandler(h, args)

\* C1 as stated: for every registered pattern P that does not end in "/",
\* handle_path(P) calls exactly P's handler, with no argument, and returns
\* its result.
C1_AsStated ==
    RegistryCall =>
        \A i \in DOMAIN registry :
            (registry[i].pattern = hp_path /\ ~EndsWithSlash(hp_path))
                => CalledOnly(registry[i].func, <<>>)

\* C1 (amended): for every registered pattern P that does not end in "/" and
\* contains no "?", handle_path(P) calls exactly P's handler, with no
\* argument, and its outcome is that call's outcome; no other handler is
\* called.
C1_ExactMatch ==
    RegistryCall =>
        \A i \in DOMAIN registry :
            (registry[i].pattern = hp_path /\ ~EndsWithSlash(hp_path) /\ ~HasQuery(hp_path))
                => CalledOnly(registry[i].func, <<>>)

C1_Witness ==
    /\ RegistryCall
    /\ Len(registry) = 2
    /\ hp_path \in Keys(registry)
    /\ ~EndsWithSlash(hp_path)
    /\ ~HasQuery(hp_path)
    /\ hp_result.outcome = Return(TxtCmd)

\* C2 as stated: for every registered prefix pattern P and every suffix S,
\* handle_path(P + S) calls P's handler with argument S and returns its
\* result (stated here for the non-empty suffixes and the paths without
\* "?"; the empty suffix is C3).
C2_AsStated ==
    RegistryCall =>
        \A i \in DOMAIN registry :
            (/\ EndsWithSlash(registry[i].pattern)
             /\ StartsWith(hp_path, registry[i].pattern)
             /\ Len(hp_path) > Len(registry[i].pattern)
             /\ ~HasQuery(hp_path))
                => CalledOnly(registry[i].func, <<Drop(hp_path, Len(registry[i].pattern))>>)

\* C2 (amended): for every registered prefix pattern P and every suffix S
\* such that P + S contains no "?", equals no registered pattern, and starts
\* with no prefix pattern that comes before P in the registry's iteration
\* order, handle_path(P + S) calls P's handler with argument S and its
\* outcome is that call's outcome.
C2_PrefixMatch ==
    RegistryCall =>
        \A i \in DOMAIN registry :
            (/\ EndsWithSlash(registry[i].pattern)
             /\ StartsWith(hp_path, registry[i].pattern)
             /\ ~HasQuery(hp_path)
             /\ hp_path \notin Keys(registry)
             /\ \A j \in 1..(i - 1) :
                    ~(EndsWithSlash(registry[j].pattern) /\ StartsWith(hp_path, registry[j].pattern)))
                => CalledOnly(registry[i].func, <<Drop(hp_path, Len(registry[i].pattern))>>)

C2_Witness ==
    /\ RegistryCall
    /\ Len(registry) = 2
    /\ \A i \in DOMAIN registry :
          EndsWithSlash(registry[i].pattern) /\ StartsWith(hp_path, registry[i].pattern)
    /\ ~HasQuery(hp_path)
    /\ hp_path \notin Keys(registry)
    /\ Len(registry[1].pattern) < Len(registry[2].pattern)
    /\ hp_result.outcome = Return(TxtSoundColon \o Drop(hp_path, Len(registry[1].pattern)))

\* C3: a path that is exactly a registered prefix pattern P (ending in "/")
\* is matched as a prefix match, P's handler being called with the one
\* argument ""; likewise "/sound/" in the hardcoded dispatcher answers as
\* the sound route with the empty name.
C3_BarePrefix ==
    /\ RegistryCall =>
          \A i \in DOMAIN registry :
              (registry[i].pattern = hp_path /\ EndsWithSlash(hp_path) /\ ~HasQuery(hp_path))
                  => CalledOnly(registry[i].func, <<<<>>>>)
    /\ (impl = "script" /\ hp_path = PathSound) => hp_result.outcome = Return(TxtSoundColon)

\* the connection's request line named method GET and the dispatcher has
\* been through
Dispatched == method = TxtGET /\ pc \notin {"method", "dispatch"}

\* no registered pattern equals sp and no registered prefix pattern starts it
Unmatched(reg, sp) ==
    /\ \A i \in DOMAIN reg : reg[i].pattern # sp
    /\ \A i \in DOMAIN reg : ~(EndsWithSlash(reg[i].pattern) /\ StartsWith(sp, reg[i].pattern))

\* the one response of the connection is (status, body): pending, or sent
\* once the send has succeeded
Answered(status, body) ==
    /\ resp = [status |-> status, body |-> body]
    /\ Len(sent) <= 1
    /\ pc = "close" => Len(sent) = 1
    /\ \A i \in DOMAIN sent :
          /\ sent[i].status = status
          /\ sent[i].reason = (IF status = 200 THEN "OK" ELSE "ERROR")
          /\ sent[i].payload = Utf8Encode(body)

\* C4: in the free-function server, a GET request whose query-stripped path
\* equals no registered pattern and starts with no registered prefix pattern
\* calls no handler, raises nothing, and is answered 200 with body
\* "Unknown path: " + the stripped path, never with an error status.
C4_UnknownPath ==
    (impl = "func" /\ Dispatched /\ Unmatched(registry, BeforeQuery(path)))
        => /\ invoked = <<>>
           /\ Answered(200, TxtUnknownPath \o BeforeQuery(path))

C4_Witness ==
    /\ impl = "func"
    /\ pc = "close"
    /\ Dispatched
    /\ Len(registry) = 2
    /\ HasQuery(path)
    /\ Unmatched(registry, BeforeQuery(path))
    /\ Len(sent) = 1

\* C5: in every connection loop (script, free-function, class-wrapped) a
\* request whose method is not exactly "GET" is answered 405 with body
\* "Only GET supported", no handler is called and nothing is actuated.
C5_NonGet ==
    (method # None /\ method # TxtGET /\ pc # "method")
        => /\ invoked = <<>>
           /\ moves = <<>>
           /\ Answered(405, TxtOnlyGet)

\* C6 as stated: a request that does not decode is answered 400 "Bad request
\* encoding", a request whose first line has fewer than two tokens (the
\* empty request b"" included) 400 "Malformed request"; no handler is called.
C6_AsStated ==
    /\ (request \in UndecodableRequests /\ pc # "decode")
          => (invoked = <<>> /\ moves = <<>> /\ Answered(400, TxtBadEncoding))
    /\ (request \in OneTokenRequests \cup {<<>>} /\ pc \notin {"decode", "parse"})
          => (invoked = <<>> /\ moves = <<>> /\ Answered(400, TxtMalformed))

\* C6 (amended): a non-empty request that does not decode is answered 400
\* "Bad request encoding" (decoding is checked before the line is split), a
\* non-empty request whose first line has fewer than two tokens 400
\* "Malformed request"; no handler is called.
C6_BadRequest ==
    /\ (request \in UndecodableRequests /\ pc # "decode")
          => (invoked = <<>> /\ moves = <<>> /\ Answered(400, TxtBadEncoding))
    /\ (request \in OneTokenRequests /\ pc \notin {"decode", "parse"})
          => (invoked = <<>> /\ moves = <<>> /\ Answered(400, TxtMalformed))

C6_Witness ==
    /\ pc = "close"
    /\ request = <<255, 13, 10>>
    /\ Len(sent) = 1
    /\ sent[1].payload = TxtBadEncoding

\* C7: for every path p without "?" and every query q, handle_path(p + "?" + q)
\* has the effect of handle_path(p): same calls, same moves, same outcome.
C7_QueryStripped ==
    (hp_path # NoPath /\ HasQuery(hp_path))
        => hp_result = Dispatcher(impl, registry, BeforeQuery(hp_path))

C7_Witness ==
    /\ hp_path # NoPath
    /\ HasQuery(hp_path)
    /\ Len(hp_path) > Len(BeforeQuery(hp_path)) + 1
    /\ hp_result.invoked # <<>>
    /\ hp_result.outcome.kind = "return"

\* C8: when the (query-stripped) path equals a registered exact pattern and
\* also starts with registered prefix patterns, the exact pattern's handler
\* is the one called, with no argument; a handler is called with a
\* remainder only when no registered pattern equals the path.
C8_ExactFirst ==
    RegistryCall =>
        LET sp == BeforeQuery(hp_path) IN
        /\ \A i \in DOMAIN registry :
              (/\ registry[i].pattern = sp
               /\ ~EndsWithSlash(sp)
               /\ \E j \in DOMAIN registry :
                     EndsWithSlash(registry[j].pattern) /\ StartsWith(sp, registry[j].pattern))
                  => CalledOnly(registry[i].func, <<>>)
        /\ \A k \in DOMAIN hp_result.invoked :
              Len(hp_result.invoked[k].args) > 0 => \A i \in DOMAIN registry : registry[i].pattern # sp

C8_Witness ==
    /\ RegistryCall
    /\ Len(registry) = 2
    /\ EndsWithSlash(registry[1].pattern)
    /\ StartsWith(hp_path, registry[1].pattern)
    /\ registry[2].pattern = hp_path
    /\ ~EndsWithSlash(hp_path)
    /\ registry[1].func = "sound"
    /\ hp_result.outcome = Return(TxtCmd)

\* C9 as stated: a GET request for the root path ("/" or "") is answered
\* with the help text, in the hardcoded and in the registry-based
\* dispatchers.
C9_AsStated ==
    (method = TxtGET /\ pc = "send" /\ BeforeQuery(path) \in {<<>>, <<SLASH>>})
        => (invoked = <<>> /\ resp = [status |-> 200, body |-> TxtHelp])

\* C9 (amended): in the hardcoded dispatcher (RobotCarWifi) a GET request for
\* the root path ("/" or "", with or without a query) is answered with the
\* help text and moves nothing, the root check coming before every route.
C9_RootHelp ==
    (impl = "script" /\ Dispatched /\ BeforeQuery(path) \in {<<>>, <<SLASH>>})
        => (moves = <<>> /\ Answered(200, TxtHelp))

C9_Witness ==
    /\ impl = "script"
    /\ pc = "close"
    /\ Dispatched
    /\ path = <<SLASH, QMARK, 97>>
    /\ Len(sent) = 1
    /\ sent[1].payload = TxtHelp

\* C10: every response sent carries a Content-Length equal to the number of
\* bytes of its UTF-8 encoded body.
C10_ContentLength ==
    \A i \in DOMAIN sent : sent[i].content_length = Len(sent[i].payload)


\* C11: the loop is strictly sequential: whenever control is at the top of
\* the loop, at the accept call or past the loop, the connection accepted
\* before (if any) is not open any more, whichever path the iteration took
\* (200, 400, 405, empty request, caught exception).
C11_Sequential == pc \in {"loop", "accept", "done"} => conn # "open"

\* an iteration that ended in an exception handler is back at the top of
\* the loop with its connection closed
C11_Witness ==
    /\ pc = "loop"
    /\ conn = "closed"
    /\ err # "none"
    /\ request # None

\* an iteration has ended with its connection accepted and closed
Finished == pc = "loop" /\ conn = "closed"

\* C12 as stated: every connection that was accepted and closed without a
\* socket I/O failure has had exactly one response sent on it.
C12_AsStated == (Finished /\ err # "OSError") => Len(sent) = 1

\* C12: the stages of a connection occur in order (nothing is parsed before
\* the request is read, no handler runs before the method check, nothing is
\* sent before the response is decided nor after the close, never a second
\* response); a connection closed without socket failure has had exactly one
\* response if its request was not empty and the dispatcher did not raise,
\* and none if the request was empty or the dispatcher raised.
C12_OneResponse ==
    /\ Len(sent) <= 1
    /\ pc = "recv" => request = None
    /\ pc \in {"recv", "decode", "parse"} => method = None /\ path = None
    /\ pc \in {"recv", "decode", "parse", "method", "dispatch"} =>
           invoked = <<>> /\ sent = <<>> /\ conn = "open"
    /\ pc = "send" => sent = <<>> /\ conn = "open" /\ resp # NoResp
    /\ sent # <<>> => pc \in {"close", "except", "loop", "accept", "done"}
    /\ invoked # <<>> => method = TxtGET
    /\ (Finished /\ err = "none" /\ request # <<>>) => Len(sent) = 1
    /\ (Finished /\ err = "none" /\ request = <<>>) => sent = <<>>
    /\ (Finished /\ err \notin {"none", "OSError"}) => sent = <<>>

\* a GET that invoked a handler was answered once and then closed
C12_Witness ==
    /\ Finished
    /\ err = "none"
    /\ invoked # <<>>
    /\ Len(sent) = 1
    /\ sent[1].status = 200

\* C13: a failure of accept, recv, send or close never ends the loop: no
\* exception leaves the loop, the loop is left only with the stop flag set,
\* and after every such failure the loop is again waiting in accept with no
\* connection open, unless the stop flag has been set.
C13_NeverFatal ==
    /\ [](pc = "raised" => err = "none" /\ conn = "none")
    /\ [](pc = "done" => ~keepAlive)
    /\ (err = "OSError" ~> ((pc = "accept" /\ conn # "open") \/ ~keepAlive))

\* a close that failed after the response was sent has been handled and the
\* loop goes on
C13_Witness ==
    /\ pc = "loop"
    /\ err = "OSError"
    /\ sent # <<>>
    /\ conn = "closed"
    /\ keepAlive

\* C14: once stop_http_server has lowered the flag, the loop accepts no
\* further connection: no accept call returns a connection while keepAlive
\* is FALSE.
C14_NoFurtherAccept == [][~keepAlive => ~(pc = "accept" /\ pc' = "recv")]_vars

\* the movement paths of the robot car
MovementPaths == {PathForward, PathBack, PathLeft, PathRight, PathStop}

\* the call handle_path(hp_path) made exactly the move_servo call (l, r), in
\* thousandths, and returned text
MovedOnce(l, r, text) ==
    /\ hp_result.moves = <<<<l, r>>>>
    /\ hp_result.outcome = Return(text)

\* C15: in the robot-car dispatcher each movement path (its query string set
\* aside) makes exactly one actuation call with its fixed throttle pair and
\* returns the command name; no other path makes any actuation call.
C15_Movement ==
    (impl = "script" /\ hp_path # NoPath) =>
        LET p == BeforeQuery(hp_path) IN
        /\ p = PathForward => MovedOnce(-1000, -1000, TxtForward)
        /\ p = PathBack => MovedOnce(1000, 1000, TxtBack)
        /\ p = PathLeft => MovedOnce(-500, 500, TxtLeft)
        /\ p = PathRight => MovedOnce(500, -500, TxtRight)
        /\ p = PathStop => MovedOnce(0, 0, TxtStop)
        /\ p \notin MovementPaths => hp_result.moves = <<>>

\* /left was dispatched and made its one call
C15_Witness ==
    /\ impl = "script"
    /\ hp_path = PathLeft
    /\ hp_result.moves = <<<<-500, 500>>>>
    /\ hp_result.outcome.text = TxtLeft

OneKeyCommand(keys) ==
    IF keys = {"w"} THEN "forward"
    ELSE IF keys = {"a"} THEN "left"
    ELSE IF keys = {"s"} THEN "back"
    ELSE IF keys = {"d"} THEN "right"
    ELSE "stop"

\* C17: for every subset of {w, a, s, d} compute_command returns the
\* direction of the key when exactly one key is held and stop otherwise; in
\* particular for the set the client has recorded after each event.
C17_ComputeCommand ==
    /\ \A keys \in SUBSET MoveKeys : compute_command(keys) = OneKeyCommand(keys)
    /\ compute_command(active_keys) = OneKeyCommand(active_keys)

\* two opposite keys are held after a single one was: the command computed
\* went from forward to stop
C17_Witness ==
    /\ active_keys = {"w", "s"}
    /\ current_cmd = "stop"
    /\ Len(http_log) = 3
    /\ http_log[2].cmd = "forward"

\* C18: the client never makes two consecutive requests with the same
\* command: in the sequence of requests made, neighbours differ, and the
\* latest request carries the command held in current_cmd.
C18_NoRepeat ==
    /\ \A i \in 1..(Len(http_log) - 1) : http_log[i].cmd # http_log[i + 1].cmd
    /\ http_log # <<>> => http_log[Len(http_log)].cmd = current_cmd

\* three keys are held: the second press asked for stop and was sent, the
\* third asked for stop again and no request was made
C18_Witness ==
    /\ active_keys = {"w", "a", "s"}
    /\ Len(http_log) = 3
    /\ http_log[2].cmd = "forward"
    /\ http_log[3].cmd = "stop"
    /\ current_cmd = "stop"

\* the point of [-1, 1] (in thousandths) nearest to t
Nearest(t) == IF t > 1000 THEN 1000 ELSE IF t < -1000 THEN -1000 ELSE t

\* C19: after a call move_servo(l, r) the throttle written to each servo
\* lies in [-1, 1]; the left one is clamp(l + left_adjust), the right one
\* clamp(-(r + right_adjust)).
C19_TrimFlipClamp ==
    (impl = "script" /\ pc = "init" /\ moves # <<>>) =>
        LET l == moves[1][1]
            r == moves[1][2]
        IN /\ servo[1] \in -1000..1000
           /\ servo[2] \in -1000..1000
           /\ servo[1] = Nearest(l + left_adjust)
           /\ servo[2] = Nearest(-(r + right_adjust))

\* out-of-range arguments on both sides were clamped
C19_Witness ==
    /\ impl = "script"
    /\ pc = "init"
    /\ moves = <<<<MaxThrottle, -MaxThrottle>>>>
    /\ servo = <<1000, 1000>>

\* C20: from the initial stop until ESC is released, after every on_press or
\* on_release handler has completed, current_cmd is the command
\* compute_command gives for the keys recorded as held.
C20_CmdTracksKeys == listener = "running" => current_cmd = compute_command(active_keys)

\* two keys are held after one was, and the command went back to stop
C20_Witness ==
    /\ listener = "running"
    /\ active_keys = {"w", "d"}
    /\ current_cmd = "stop"
    /\ Len(http_log) = 3

\* the handler that ran last is on_press(space)
SpacePressed == event = [handler |-> "on_press", key |-> "space"]

\* C21: space is a panic stop: when on_press(space) has completed, whatever
\* keys were recorded, active_keys is empty and the last command issued is
\* stop; the handler made one stop request, unless stop was already the
\* last command sent, in which case it made none.
C21_PanicStop ==
    [][SpacePressed' =>
          /\ active_keys' = {}
          /\ current_cmd' = "stop"
          /\ http_log' # <<>>
          /\ http_log'[Len(http_log')].cmd = "stop"
          /\ IF current_cmd = "stop"
             THEN http_log' = http_log
             ELSE /\ Len(http_log') = Len(http_log) + 1
                  /\ SubSeq(http_log', 1, Len(http_log)) = http_log]_vars

\* space was pressed after the car had been sent forward: the keys are
\* cleared and stop is the latest request
C21_Witness ==
    /\ SpacePressed
    /\ active_keys = {}
    /\ Len(http_log) = 3
    /\ http_log[2].cmd = "forward"
    /\ http_log[3].cmd = "stop"

\* the latest request of the log lg failed
LastFailed(lg) == lg # <<>> /\ ~lg[Len(lg)].ok

\* C22: the cache is written before the request and not rolled back: when
\* the latest request, for command c, has failed, current_cmd is c, and the
\* next request made, if any, carries a command other than c (a
\* send_command(c) in between makes no request).
C22_NoRollback ==
    [][/\ LastFailed(http_log') => current_cmd' = http_log'[Len(http_log')].cmd
       /\ (LastFailed(http_log) /\ http_log' # http_log) =>
              /\ Len(http_log') = Len(http_log) + 1
              /\ http_log'[Len(http_log')].cmd # http_log[Len(http_log)].cmd]_vars

\* the startup stop failed; releasing w, which asks for stop again, made no
\* request
C22_Witness ==
    /\ http_log = <<[cmd |-> "stop", ok |-> FALSE]>>
    /\ event = [handler |-> "on_release", key |-> "w"]
    /\ current_cmd = "stop"

\* the call was made with a number of arguments the handler does not take
WrongArity(call) ==
    \/ call.func = "cmd" /\ Len(call.args) # 0
    \/ call.func = "sound" /\ Len(call.args) # 1

\* the free-function server has called, for the current connection, a
\* handler that raised
HandlerRaised == impl = "func" /\ invoked # <<>> /\ WrongArity(invoked[1])

\* C23: when a registered handler raises during the dispatch of a GET
\* request, nothing is sent on the connection, the exception handler closes
\* it, the registry stays as it was, and the loop goes on to the next accept
\* (where the only exception left to handle is a failure of that accept).
C23_HandlerRaises ==
    [][/\ HandlerRaised' =>
             /\ pc' \in {"except", "loop", "accept"}
             /\ sent' = <<>>
             /\ pc' = "except" => err' \in {"TypeError", "OSError"}
             /\ conn' = IF pc' = "except" /\ err' = "TypeError" THEN "open" ELSE "closed"
       /\ HandlerRaised =>
             /\ registry' = registry
             /\ pc = "except" => pc' = "loop"
             /\ pc = "loop" => pc' = "accept"]_vars

\* a handler registered for an exact path takes an argument: the call
\* raised, and the loop is at accept again with nothing sent
C23_Witness ==
    /\ HandlerRaised
    /\ invoked[1].args = <<>>
    /\ pc = "accept"
    /\ conn = "closed"
    /\ sent = <<>>

\* what the free-function server decides for a request line with method m
\* and path p under the registry reg: the handler calls and the response
\* (NoResp when the dispatcher raises)
FuncAnswer(reg, m, p) ==
    IF m # TxtGET
    THEN [invoked |-> <<>>, resp |-> [status |-> 405, body |-> OnlyGetBody("func")]]
    ELSE LET r == LoopDispatch("func", reg, p) IN
         [invoked |-> r.invoked,
          resp |-> IF r.outcome.kind = "return"
                   THEN [status |-> 200, body |-> r.outcome.text]
                   ELSE NoResp]

\* C24: the class-wrapped server is equivalent to the free-function server:
\* for every GET request line it has worked through, it has invoked the same
\* handlers with the same arguments and decided the same status and body as
\* the free-function server does with the same registry.
C24_Equivalent ==
    (impl = "class" /\ method = TxtGET /\ pc \notin {"method", "dispatch"}) =>
        /\ invoked = FuncAnswer(registry, method, path).invoked
        /\ resp = FuncAnswer(registry, method, path).resp

====
